---- MODULE Spec2Model ----
(***************************************************************************)
(* Model of the requirement-clarity auditor: auditor.run_audit and the     *)
(* helpers it calls (auditor.py).                                          *)
(*                                                                         *)
(* Python values are tagged records: [t |-> "null"], [t |-> "int", v |-> n],*)
(* [t |-> "str", v |-> <<characters>>], [t |-> "list", v |-> <<values>>],  *)
(* [t |-> "dict", v |-> [key |-> value]] and so on.  A string is the       *)
(* sequence of its characters; a stretch of fixed text that no operation   *)
(* looks into is written as one symbol.                                    *)
(***************************************************************************)
EXTENDS Integers, Sequences, FiniteSets, TLC

\* ------------------------------------------------------------------------
\* Python values
\* ------------------------------------------------------------------------
PyNone == [t |-> "null"]
PyInt(n) == [t |-> "int", v |-> n]
PyBool(b) == [t |-> "bool", v |-> b]
\* a float with one decimal digit, held as its number of tenths
PyFloat(tenths) == [t |-> "float", v |-> tenths]
PyStr(s) == [t |-> "str", v |-> s]
PyList(l) == [t |-> "list", v |-> l]
PyDict(d) == [t |-> "dict", v |-> d]

\* a stretch of fixed text, one symbol
Text(x) == PyStr(<<x>>)

EmptyDict == [k \in {} |-> PyNone]

\* d[k] = v added to (or replaced in) the mapping d
Put(d, k, v) == [x \in (DOMAIN d) \cup {k} |-> IF x = k THEN v ELSE d[x]]

\* ------------------------------------------------------------------------
\* str methods
\* ------------------------------------------------------------------------
LowerCase == <<"l", "o", "w", "m", "e", "d", "i", "u", "h", "g", "c", "r", "t", "a", "f", "s">>
UpperCase == <<"L", "O", "W", "M", "E", "D", "I", "U", "H", "G", "C", "R", "T", "A", "F", "S">>

IsLower(c) == \E i \in 1..Len(LowerCase) : LowerCase[i] = c
IsUpper(c) == \E i \in 1..Len(UpperCase) : UpperCase[i] = c
IsCased(c) == IsLower(c) \/ IsUpper(c)

ToUpper(c) ==
    IF IsLower(c) THEN UpperCase[CHOOSE i \in 1..Len(LowerCase) : LowerCase[i] = c] ELSE c

ToLower(c) ==
    IF IsUpper(c) THEN LowerCase[CHOOSE i \in 1..Len(UpperCase) : UpperCase[i] = c] ELSE c

IsSpace(c) == c \in {" ", "\n", "\t"}

\* str.strip(): leading and trailing whitespace removed
RECURSIVE LStrip(_)
LStrip(s) == IF s # <<>> /\ IsSpace(Head(s)) THEN LStrip(Tail(s)) ELSE s

RECURSIVE RStrip(_)
RStrip(s) ==
    IF s # <<>> /\ IsSpace(s[Len(s)]) THEN RStrip(SubSeq(s, 1, Len(s) - 1)) ELSE s

Strip(s) == RStrip(LStrip(s))

\* str.title(): a cased character is upper-cased when it follows an uncased
\* character (or starts the string) and lower-cased otherwise
Title(s) ==
    [i \in 1..Len(s) |->
        IF i = 1 \/ ~IsCased(s[i - 1]) THEN ToUpper(s[i]) ELSE ToLower(s[i])]

Digits == <<"0", "1", "2", "3", "4", "5", "6", "7", "8", "9">>
IsDigit(c) == \E i \in 1..10 : Digits[i] = c
DigitVal(c) == (CHOOSE i \in 1..10 : Digits[i] = c) - 1

RECURSIVE DigitsToNat(_)
DigitsToNat(s) ==
    IF s = <<>> THEN 0
    ELSE 10 * DigitsToNat(SubSeq(s, 1, Len(s) - 1)) + DigitVal(s[Len(s)])

RECURSIVE NatToDigits(_)
NatToDigits(n) ==
    IF n < 10 THEN <<Digits[n + 1]>>
    ELSE NatToDigits(n \div 10) \o <<Digits[(n % 10) + 1]>>

\* str(n) for an int n
IntToStr(n) == IF n < 0 THEN <<"-">> \o NatToDigits(0 - n) ELSE NatToDigits(n)

\* ------------------------------------------------------------------------
\* int(x) and str(x)
\* ------------------------------------------------------------------------
\* json.loads reads Infinity and NaN as floats that int() rejects
PyInf == [t |-> "inf"]

AllDigits(s) == s # <<>> /\ \A i \in 1..Len(s) : IsDigit(s[i])

\* int(s) for a string: surrounding whitespace and one sign are allowed
StrIsInt(s) ==
    LET c == Strip(s)
    IN  IF c # <<>> /\ Head(c) \in {"-", "+"} THEN AllDigits(Tail(c)) ELSE AllDigits(c)

StrToInt(s) ==
    LET c == Strip(s)
    IN  IF Head(c) = "-" THEN 0 - DigitsToNat(Tail(c))
        ELSE IF Head(c) = "+" THEN DigitsToNat(Tail(c))
        ELSE DigitsToNat(c)

\* int(x) succeeds (it raises ValueError, TypeError or OverflowError otherwise)
IntConvertible(x) ==
    CASE x.t \in {"int", "bool", "float"} -> TRUE
      [] x.t = "str" -> StrIsInt(x.v)
      [] OTHER -> FALSE

\* int(x): a float is truncated towards zero
IntOf(x) ==
    CASE x.t = "int" -> x.v
      [] x.t = "bool" -> IF x.v THEN 1 ELSE 0
      [] x.t = "float" -> IF x.v >= 0 THEN x.v \div 10 ELSE 0 - ((0 - x.v) \div 10)
      [] x.t = "str" -> StrToInt(x.v)

FloatToStr(tenths) ==
    LET a == IF tenths < 0 THEN 0 - tenths ELSE tenths
    IN  (IF tenths < 0 THEN <<"-">> ELSE <<>>)
            \o NatToDigits(a \div 10) \o <<".">> \o NatToDigits(a % 10)

\* the keys of a mapping in one fixed order
RECURSIVE KeySeq(_)
KeySeq(ks) ==
    IF ks = {} THEN <<>>
    ELSE LET k == CHOOSE x \in ks : TRUE IN <<k>> \o KeySeq(ks \ {k})

RECURSIVE PyRepr(_)
RECURSIVE JoinRepr(_)
RECURSIVE JoinItems(_, _)

\* repr(x): what str() of a list or a dict shows of its elements
PyRepr(x) ==
    CASE x.t = "str" -> <<"'">> \o x.v \o <<"'">>
      [] x.t = "int" -> IntToStr(x.v)
      [] x.t = "bool" -> IF x.v THEN <<"T", "r", "u", "e">> ELSE <<"F", "a", "l", "s", "e">>
      [] x.t = "float" -> FloatToStr(x.v)
      [] x.t = "inf" -> <<"i", "n", "f">>
      [] x.t = "null" -> <<"N", "o", "n", "e">>
      [] x.t = "list" -> <<"[">> \o JoinRepr(x.v) \o <<"]">>
      [] x.t = "dict" -> <<"{">> \o JoinItems(x.v, KeySeq(DOMAIN x.v)) \o <<"}">>

JoinRepr(l) ==
    IF l = <<>> THEN <<>>
    ELSE IF Len(l) = 1 THEN PyRepr(l[1])
    ELSE PyRepr(l[1]) \o <<",", " ">> \o JoinRepr(Tail(l))

JoinItems(d, ks) ==
    IF ks = <<>> THEN <<>>
    ELSE LET one == <<"'", ks[1], "'", ":", " ">> \o PyRepr(d[ks[1]])
         IN  IF Len(ks) = 1 THEN one ELSE one \o <<",", " ">> \o JoinItems(d, Tail(ks))

\* str(x)
PyStrOf(x) == IF x.t = "str" THEN x.v ELSE PyRepr(x)

\* ------------------------------------------------------------------------
\* _default_report
\* ------------------------------------------------------------------------
Low == <<"L", "o", "w">>
Medium == <<"M", "e", "d", "i", "u", "m">>
High == <<"H", "i", "g", "h">>

StatusNo == <<"N", "o">>
StatusYes == <<"Y", "e", "s">>

ChecklistItem(item, status) ==
    PyDict([item |-> Text(item), status |-> PyStr(status), notes |-> PyStr(<<>>)])

RiskFlag(risk, severity, mitigation) ==
    PyDict([risk |-> Text(risk), severity |-> PyStr(severity), mitigation |-> mitigation])

Criterion(given, when, then) ==
    PyDict([given |-> Text(given), when |-> Text(when), then |-> Text(then)])

DefaultScore == 20

\* the dict literal of lines 179-244
DefaultReportLiteral ==
    [clarity_score |-> PyInt(DefaultScore),
     risk_level |-> PyStr(High),
     executive_summary |-> PyDict(
        [top_gaps |-> PyList(<<
            Text("Requirement lacks sufficient detail to be implementation-ready."),
            Text("Success criteria and measurable targets are missing."),
            Text("Edge cases and failure handling are not defined.")>>),
         top_quick_fixes |-> PyList(<<
            Text("Define endpoints, request/response fields, and authentication approach."),
            Text("Add measurable performance targets (latency, timeouts, throughput)."),
            Text("Document failure modes and write Given/When/Then acceptance criteria.")>>)]),
     contract_completeness |-> PyDict(
        [checklist |-> PyList(<<
            ChecklistItem("Endpoint path and HTTP method defined", StatusNo),
            ChecklistItem("Authentication/authorization defined", StatusNo),
            ChecklistItem("Request schema defined", StatusNo),
            ChecklistItem("Response schema defined", StatusNo),
            ChecklistItem("Error handling and status codes defined", StatusNo),
            ChecklistItem("Versioning strategy defined", StatusNo),
            ChecklistItem("Rate limits/timeouts/retries defined", StatusNo),
            ChecklistItem("Idempotency behavior defined (if applicable)", StatusNo),
            ChecklistItem("Observability/logging/metrics defined", StatusNo)>>)]),
     measurability_audit |-> PyDict(
        [missing_metrics |-> PyList(<<
            Text("Latency target"), Text("Timeout policy"),
            Text("Throughput expectations"), Text("Success metric definition")>>),
         suggested_metrics |-> PyList(<<
            Text("Define p95 latency target (e.g., <= 250ms) for core endpoints."),
            Text("Define request timeout and retry behavior (e.g., 3 retries with exponential backoff)."),
            Text("Define throughput or QPS expectation and scaling assumptions."),
            Text("Define success criteria (e.g., error rate, completion rate, SLO).")>>)]),
     ambiguity_flags |-> PyList(<<
        PyDict([phrase |-> Text("fast / scalable / reliable (if used)"),
                issue |-> Text("These are subjective without measurable thresholds."),
                suggested_rewrite |-> Text("Specify measurable targets (latency p95, QPS, error rate, availability).")])>>),
     edge_case_coverage |-> PyDict(
        [missing_edge_cases |-> PyList(<<
            Text("Invalid or missing required fields"),
            Text("Authentication failures"),
            Text("Dependency timeouts and failures"),
            Text("Duplicate requests and idempotency")>>),
         clarifying_questions |-> PyList(<<
            Text("What are the expected error responses and status codes for common failure paths?"),
            Text("What timeouts and retry policies should clients use?"),
            Text("How should the system behave on duplicate create requests?")>>)]),
     risk_flags |-> PyList(<<
        RiskFlag("Undefined API contract", High,
                 Text("Document endpoints, schemas, auth, and error handling.")),
        RiskFlag("Unclear success metrics", Medium,
                 Text("Define measurable targets and acceptance criteria."))>>),
     acceptance_criteria |-> PyList(<<
        Criterion("a valid request payload", "the client calls the endpoint",
                  "the service returns a 2xx response with the expected schema"),
        Criterion("an invalid request payload", "the client calls the endpoint",
                  "the service returns a 4xx response with a standardized error format")>>)]

\* The default-report object that was last written in place, as it is now:
\* run_audit writes the diagnostic into the one it returns as the fallback
\* (line 328), and a caller may write into a report it was given.
VARIABLE template

\* one object kept and handed out again by every call
SharedReport(written, literal) == written

\* what a call of _default_report() hands out: the literal is evaluated by
\* every call, so the object is a new one whatever was written before
FreshReport(written, literal) == literal

_default_report == FreshReport(template, DefaultReportLiteral)

\* ------------------------------------------------------------------------
\* _ensure_required_shape
\* ------------------------------------------------------------------------
\* merge without the walk over the keys: the model's mapping replaces the default's
mergeShallow(a, b) == IF b.t # "null" THEN b ELSE a

RECURSIVE mergeDropExtra(_, _)
\* merge as a schema filter: keys the default does not have are dropped
mergeDropExtra(a, b) ==
    IF a.t = "dict" /\ b.t = "dict"
    THEN PyDict([k \in DOMAIN a.v |->
                    IF k \in DOMAIN b.v THEN mergeDropExtra(a.v[k], b.v[k]) ELSE a.v[k]])
    ELSE IF b.t # "null" THEN b ELSE a

RECURSIVE mergeNullWins(_, _)
\* merge without the test for None: a null of the model replaces the default
mergeNullWins(a, b) ==
    IF a.t = "dict" /\ b.t = "dict"
    THEN PyDict([k \in (DOMAIN a.v) \cup (DOMAIN b.v) |->
                    IF k \in DOMAIN a.v /\ k \in DOMAIN b.v THEN mergeNullWins(a.v[k], b.v[k])
                    ELSE IF k \in DOMAIN b.v THEN b.v[k]
                    ELSE a.v[k]])
    ELSE b

RECURSIVE mergeExtendLists(_, _)
\* merge that joins two lists instead of taking the model's
mergeExtendLists(a, b) ==
    IF a.t = "dict" /\ b.t = "dict"
    THEN PyDict([k \in (DOMAIN a.v) \cup (DOMAIN b.v) |->
                    IF k \in DOMAIN a.v /\ k \in DOMAIN b.v THEN mergeExtendLists(a.v[k], b.v[k])
                    ELSE IF k \in DOMAIN b.v THEN b.v[k]
                    ELSE a.v[k]])
    ELSE IF a.t = "list" /\ b.t = "list" THEN PyList(a.v \o b.v)
    ELSE IF b.t # "null" THEN b ELSE a

RECURSIVE merge(_, _)
\* a is the default, b is the model output
merge(a, b) ==
    IF a.t = "dict" /\ b.t = "dict"
    THEN PyDict([k \in (DOMAIN a.v) \cup (DOMAIN b.v) |->
                    IF k \in DOMAIN a.v /\ k \in DOMAIN b.v THEN merge(a.v[k], b.v[k])
                    ELSE IF k \in DOMAIN b.v THEN b.v[k]
                    ELSE a.v[k]])
    ELSE IF b.t # "null" THEN b ELSE a

\* the model's score dropped for the default score
CoerceScoreIgnoring(x) == DefaultScore

\* the coercion that falls back to 0
CoerceScoreZero(x) == IF IntConvertible(x) THEN IntOf(x) ELSE 0

\* merged["clarity_score"] after the try/except around int()
CoerceScore(x) == IF IntConvertible(x) THEN IntOf(x) ELSE DefaultScore

\* the normalisation that answers High whatever the model said
NormalizeRiskForcingHigh(x) == High

\* the normalisation without title()
NormalizeRiskNoTitle(x) ==
    LET risk == Strip(PyStrOf(x))
    IN  IF risk \notin {Low, Medium, High} THEN High ELSE risk

\* merged["risk_level"] after the normalisation
NormalizeRisk(x) ==
    LET risk == Title(Strip(PyStrOf(x)))
    IN  IF risk \notin {Low, Medium, High} THEN High ELSE risk

\* dict.get(k, default)
Get(d, k, default) == IF k \in DOMAIN d THEN d[k] ELSE default

_ensure_required_shape(report) ==
    LET base == _default_report
        merged == merge(PyDict(base), PyDict(report)).v
        scored == Put(merged, "clarity_score",
                      PyInt(CoerceScore(Get(merged, "clarity_score", base["clarity_score"]))))
    IN  Put(scored, "risk_level",
            PyStr(NormalizeRisk(Get(scored, "risk_level", PyStr(High)))))

\* ------------------------------------------------------------------------
\* Response text and its parsing
\* ------------------------------------------------------------------------
\* The characters of a response text: braces, whitespace, "x" for any other
\* character outside a JSON object, and "J" for the text of the members of
\* one JSON object (the response's field members says what they parse to).
NoJsonObject == "No JSON object found in model response."
JSONDecodeError == "Expecting value"

\* positions of the first "{" and of the last "}" after it: re.search(r"\{.*\}")
FirstOpen(text) == CHOOSE i \in 1..Len(text) :
    text[i] = "{" /\ \A j \in 1..(i - 1) : text[j] # "{"
\* the first "}" after the first "{": the pattern \{.*?\}
LastCloseLazy(text) == CHOOSE i \in 1..Len(text) :
    /\ text[i] = "}" /\ i > FirstOpen(text)
    /\ \A j \in (FirstOpen(text) + 1)..(i - 1) : text[j] # "}"

LastClose(text) == CHOOSE i \in 1..Len(text) :
    text[i] = "}" /\ \A j \in (i + 1)..Len(text) : text[j] # "}"
HasMatch(text) ==
    \E i, j \in 1..Len(text) : i < j /\ text[i] = "{" /\ text[j] = "}"

\* [ok |-> TRUE, v |-> the candidate] or [ok |-> FALSE, err |-> the ValueError]
_extract_json_object(raw) ==
    LET text == Strip(raw)
    IN  IF text # <<>> /\ Head(text) = "{" /\ text[Len(text)] = "}"
        THEN [ok |-> TRUE, v |-> text, err |-> ""]
        ELSE IF HasMatch(text)
        THEN [ok |-> TRUE, v |-> Strip(SubSeq(text, FirstOpen(text), LastClose(text))),
              err |-> ""]
        ELSE [ok |-> FALSE, v |-> <<>>, err |-> NoJsonObject]

NotSpace(c) == ~IsSpace(c)

\* json.loads of a candidate: one object, with or without members
JsonLoads(cand, members) ==
    LET inner == SelectSeq(SubSeq(cand, 2, Len(cand) - 1), NotSpace)
    IN  IF Len(cand) >= 2 /\ Head(cand) = "{" /\ cand[Len(cand)] = "}" /\ inner = <<"J">>
        THEN [ok |-> TRUE, v |-> members, err |-> ""]
        ELSE IF Len(cand) >= 2 /\ Head(cand) = "{" /\ cand[Len(cand)] = "}" /\ inner = <<>>
        THEN [ok |-> TRUE, v |-> EmptyDict, err |-> ""]
        ELSE [ok |-> FALSE, v |-> EmptyDict, err |-> JSONDecodeError]

_safe_parse_json(text, members) ==
    LET raw == _extract_json_object(text)
    IN  IF raw.ok THEN JsonLoads(raw.v, members)
        ELSE [ok |-> FALSE, v |-> EmptyDict, err |-> raw.err]

\* ------------------------------------------------------------------------
\* Inputs: requirement texts, API keys, model responses
\* ------------------------------------------------------------------------
Quote == "\""

RequirementTexts ==
    {PyNone, PyStr(<<>>), PyStr(<<" ", "\n">>), PyStr(<<" ", "r", "\n">>),
     PyStr(<<"r", Quote, Quote, Quote, "r">>)}

\* GEMINI_API_KEY: unset, blank, set
ApiKeys == {PyNone, PyStr(<<>>), PyStr(<<" ">>), PyStr(<<" ", "k">>)}

\* a key the model output leaves out
Absent == [t |-> "absent"]
With(d, k, c) == IF c.t = "absent" THEN d ELSE Put(d, k, c)

ScoreInputs ==
    {Absent, PyNone, PyInt(0 - 5), PyInt(0), PyInt(85), PyInt(150),
     PyStr(<<" ", "8", "5">>), PyStr(<<"h", "i", "g", "h">>), PyFloat(857), PyList(<<>>)}

RiskInputs ==
    {Absent, PyNone, PyStr(Low), PyStr(<<"l", "o", "w">>),
     PyStr(<<" ", "M", "E", "D", "I", "U", "M", "\n">>), PyStr(<<"h", "I", "g", "H">>),
     PyStr(<<"c", "r", "i", "t", "i", "c", "a", "l">>), PyStr(<<>>),
     PyList(<<PyStr(Low)>>)}

FlagInputs ==
    {Absent, PyNone, PyList(<<>>),
     PyList(<<RiskFlag("Vendor lock-in", Low, Text("Abstract the provider."))>>),
     PyList(<<RiskFlag("Data loss", <<"h", "i", "g", "h">>, Text("Back up daily.")),
              RiskFlag("Outage", <<"C", "r", "i", "t", "i", "c", "a", "l">>, PyStr(<<>>))>>),
     PyList(<<PyDict([risk |-> Text("No owner")])>>),
     Text("none")}

\* the rest of the object: nothing, a complete audit, a mis-shaped one
GoodRest ==
    [executive_summary |-> PyDict([top_gaps |-> PyList(<<>>), top_quick_fixes |-> PyList(<<>>)]),
     contract_completeness |-> PyDict(
        [checklist |-> PyList([i \in 1..10 |-> ChecklistItem("Criterion", StatusYes)])]),
     measurability_audit |-> PyDict(
        [missing_metrics |-> PyList(<<>>), suggested_metrics |-> PyList(<<>>)]),
     ambiguity_flags |-> PyList(<<>>),
     edge_case_coverage |-> PyDict(
        [missing_edge_cases |-> PyList(<<>>), clarifying_questions |-> PyList(<<>>)]),
     acceptance_criteria |-> PyList(<<
        Criterion("g1", "w1", "t1"), Criterion("g2", "w2", "t2"),
        Criterion("g3", "w3", "t3")>>)]

OddRest ==
    [executive_summary |-> Text("all good"),
     contract_completeness |-> PyDict([checklist |-> PyNone, owner |-> Text("api team")]),
     measurability_audit |-> PyNone,
     acceptance_criteria |-> PyInt(0),
     notes |-> Text("extra")]

RestInputs == {EmptyDict, GoodRest, OddRest}

\* the objects a response can carry
Bodies ==
    {With(With(With(rest, "clarity_score", s), "risk_level", r), "risk_flags", f) :
        s \in ScoreInputs, r \in RiskInputs, f \in FlagInputs, rest \in RestInputs}

\* text that holds one object: bare, or padded, or wrapped in prose or a code fence
BareText == <<"{", "J", "}">>
WrappedTexts == {<<" ", "{", "J", "}", "\n">>, <<"x", "\n", "{", "J", "}", "\n", "x">>}

\* the objects that also come wrapped
WrappedBodies ==
    {With(With(rest, "clarity_score", s), "risk_level", PyStr(<<"l", "o", "w">>)) :
        s \in {Absent, PyInt(150)}, rest \in {EmptyDict, GoodRest}}

\* text that holds no object, a broken one, or several
BadTexts == {<<"x", "x">>, <<"{", "J">>, <<"{", "J", "}", "x", "{", "J", "}">>}

TransportErrors == {"timed out", "503 UNAVAILABLE"}

\* what one call of client.models.generate_content does: it raises err, or
\* returns an object whose text attribute is text (None: absent) and whose
\* str() is repr
Response(err, text, repr, members) ==
    [err |-> err, text |-> text, repr |-> repr, members |-> members]

Responses ==
    {Response(e, PyNone, <<>>, EmptyDict) : e \in TransportErrors}
    \cup {Response("", PyStr(BareText), <<"x">>, m) : m \in Bodies}
    \cup {Response("", PyStr(t), <<"x">>, m) : t \in WrappedTexts, m \in WrappedBodies}
    \cup {Response("", PyStr(t), <<"x">>, EmptyDict) : t \in BadTexts \cup {<<"{", "}">>}}
    \cup {Response("", PyNone, t, EmptyDict) : t \in {<<"x">>, <<"x", "{", "}">>}}

\* ------------------------------------------------------------------------
\* run_audit
\* ------------------------------------------------------------------------
VARIABLES
    pc,                \* where run_audit is: "idle", "loop", "returned", "raised"
    api_key,           \* the environment's GEMINI_API_KEY
    arg_text,          \* the argument run_audit was called with
    requirement_text,  \* the local requirement_text, stripped
    prompt,            \* the local prompt
    attempt,           \* iterations of the retry loop begun so far
    last_error,        \* the local last_error ("" for None)
    parsed,            \* the local parsed (None until a response parses)
    result,            \* the value returned to the caller (None until then)
    raised,            \* the error raised to the caller ("" for none)
    calls              \* the calls received by the model client, in order

VARIABLES
    fn_in,             \* the argument of a helper called on its own
    fn_out,            \* what the helper returned (None until it has)
    session            \* app.py: st.session_state and the audits started

\* run_audit's own state
auditVars == <<pc, api_key, arg_text, requirement_text, prompt, attempt, last_error,
               parsed, result, raised, calls>>

\* the helpers' state
fnVars == <<fn_in, fn_out>>

vars == <<pc, api_key, arg_text, requirement_text, prompt, attempt, last_error,
          parsed, result, raised, calls, template, fn_in, fn_out, session>>

attempts == 2

\* st.session_state after lines 543-550; started counts the audits started,
\* report_of is the audit the report came from (0: no report), invoked counts
\* the calls of run_audit, event is what began the last script pass ("rerun"
\* for st.rerun()) and message is the st.error it showed
SessionInit ==
    [report |-> PyNone, req_text |-> <<>>, is_running |-> FALSE, started |-> 0, report_of |-> 0,
     invoked |-> 0, event |-> "", message |-> <<>>]

Rubric == "You are the AI Requirement Clarity Auditor. ... Requirement text:"
Reminder == "Reminder: Return ONLY valid JSON exactly matching the schema. No extra text."
KeyNotFound == "GEMINI_API_KEY not found. Add it to .env (local) or Streamlit Secrets (cloud)."
ParseFailed == "Model response could not be parsed as JSON. Using fallback report. Error: "

\* the text without strip()
StripTextNoStrip(t) == IF t.t = "null" THEN <<>> ELSE t.v

\* (requirement_text or "").strip()
StripText(t) == Strip(IF t.t = "null" THEN <<>> ELSE t.v)

\* the test of the key without strip()
KeyMissingNoStrip(k) == (IF k.t = "null" THEN <<>> ELSE k.v) = <<>>

\* os.getenv("GEMINI_API_KEY", "").strip() is empty
KeyMissing(k) == Strip(IF k.t = "null" THEN <<>> ELSE k.v) = <<>>

build_master_prompt(text) ==
    Strip(<<"\n", Rubric, "\n", Quote, Quote, Quote>> \o text
          \o <<Quote, Quote, Quote, "\n">>)

\* the reminder in place of the prompt
StrengthenReplacing(p) == <<Reminder>>

\* the prompt for the next pass
Strengthen(p) == p \o <<"\n", "\n", Reminder>>

\* the body of the try block for one response: [ok |-> TRUE, parsed, shaped]
\* or [ok |-> FALSE, err |-> the exception caught]
AttemptOutcome(r) ==
    IF r.err # "" THEN [ok |-> FALSE, err |-> r.err, parsed |-> PyNone, shaped |-> PyNone]
    ELSE LET raw_text == IF r.text.t = "null" THEN r.repr ELSE r.text.v
             p == _safe_parse_json(raw_text, r.members)
         IN  IF p.ok
             THEN [ok |-> TRUE, err |-> "", parsed |-> PyDict(p.v),
                   shaped |-> PyDict(_ensure_required_shape(p.v))]
             ELSE [ok |-> FALSE, err |-> p.err, parsed |-> PyNone, shaped |-> PyNone]

\* the first error kept
LastErrorFirst(prev, e) == IF prev = "" THEN e ELSE prev

\* last_error after an attempt that raised e
LastError(prev, e) == e

\* the loop without its return
AfterAttemptNoReturn(ok) == "loop"

\* where the loop goes after an attempt
AfterAttempt(ok) == IF ok THEN "returned" ELSE "loop"

\* the fallback report of lines 327-331
Fallback(err) ==
    LET fallback == _default_report
        summary == fallback["executive_summary"].v
        gaps == summary["top_gaps"].v
    IN  Put(fallback, "executive_summary",
            PyDict(Put(summary, "top_gaps",
                       PyList([gaps EXCEPT ![1] = PyStr(<<ParseFailed, err>>)]))))

Init ==
    /\ pc = "idle"
    /\ api_key = PyNone
    /\ arg_text = PyNone
    /\ requirement_text = <<>>
    /\ prompt = <<>>
    /\ attempt = 0
    /\ last_error = ""
    /\ parsed = PyNone
    /\ result = PyNone
    /\ raised = ""
    /\ calls = <<>>
    /\ template = DefaultReportLiteral
    /\ fn_in = PyNone
    /\ fn_out = PyNone
    /\ session = SessionInit

\* the environment (.env, Streamlit secrets) sets or unsets the key
SetEnv(k) ==
    /\ pc = "idle"
    /\ api_key' = k
    /\ UNCHANGED <<pc, arg_text, requirement_text, prompt, attempt, last_error,
                   parsed, result, raised, calls>>

\* run_audit(t), lines 290-299
RunAudit(t) ==
    /\ pc = "idle"
    /\ arg_text' = t
    /\ requirement_text' = StripText(t)
    /\ IF StripText(t) = <<>>
       THEN /\ result' = PyDict(_default_report)
            /\ pc' = "returned"
            /\ UNCHANGED <<prompt, raised>>
       ELSE IF KeyMissing(api_key)
       THEN /\ raised' = KeyNotFound
            /\ pc' = "raised"
            /\ UNCHANGED <<prompt, result>>
       ELSE /\ prompt' = build_master_prompt(StripText(t))
            /\ pc' = "loop"
            /\ UNCHANGED <<result, raised>>
    /\ UNCHANGED <<api_key, attempt, last_error, parsed, calls>>

\* one iteration of the retry loop, lines 301-324: the client answers r
Attempt(r) ==
    /\ pc = "loop"
    /\ attempt < attempts
    /\ attempt' = attempt + 1
    /\ calls' = Append(calls, [prompt |-> prompt, resp |-> r])
    /\ LET o == AttemptOutcome(r)
       IN  /\ pc' = AfterAttempt(o.ok)
           /\ IF o.ok
              THEN /\ parsed' = o.parsed
                   /\ result' = IF AfterAttempt(o.ok) = "returned" THEN o.shaped ELSE result
                   /\ UNCHANGED <<last_error, prompt>>
              ELSE /\ last_error' = LastError(last_error, o.err)
                   /\ prompt' = Strengthen(prompt)
                   /\ UNCHANGED <<parsed, result>>
    /\ UNCHANGED <<api_key, arg_text, requirement_text, raised>>

\* the loop is over without a parsed response, lines 326-331
ReturnFallback ==
    /\ pc = "loop"
    /\ attempt = attempts
    /\ result' = PyDict(Fallback(last_error))
    /\ pc' = "returned"
    /\ UNCHANGED <<api_key, arg_text, requirement_text, prompt, attempt, last_error,
                   parsed, raised, calls>>

\* the caller has the report or the error; run_audit can be called again
Finish ==
    /\ pc \in {"returned", "raised"}
    /\ pc' = "idle"
    /\ arg_text' = PyNone
    /\ requirement_text' = <<>>
    /\ prompt' = <<>>
    /\ attempt' = 0
    /\ last_error' = ""
    /\ parsed' = PyNone
    /\ result' = PyNone
    /\ raised' = ""
    /\ calls' = <<>>
    /\ UNCHANGED api_key

Next ==
    \/ \E k \in ApiKeys : SetEnv(k) /\ UNCHANGED <<template, fnVars, session>>
    \/ \E t \in RequirementTexts : RunAudit(t) /\ UNCHANGED <<template, fnVars, session>>
    \/ \E r \in Responses : Attempt(r) /\ UNCHANGED <<template, fnVars, session>>
    \/ ReturnFallback /\ UNCHANGED <<template, fnVars, session>>
    \/ Finish /\ UNCHANGED <<template, fnVars, session>>

Spec == Init /\ [][Next]_vars

\* ------------------------------------------------------------------------
\* Properties of run_audit
\* ------------------------------------------------------------------------
TopLevelKeys ==
    {"clarity_score", "risk_level", "executive_summary", "contract_completeness",
     "measurability_audit", "ambiguity_flags", "edge_case_coverage", "risk_flags",
     "acceptance_criteria"}

AllSpace(s) == \A i \in 1..Len(s) : IsSpace(s[i])

\* the argument is None, empty or whitespace only
BlankArg == arg_text.t = "null" \/ AllSpace(arg_text.v)

\* the environment holds a key with something in it
KeyConfigured == api_key.t = "str" /\ ~AllSpace(api_key.v)

Called == pc # "idle"
Returned == pc = "returned"

\* the value the model gave for key k in the response that parsed
Given(k) == IF k \in DOMAIN parsed.v THEN parsed.v[k] ELSE Absent

\* C1: with an API key configured and a non-empty requirement text, whatever
\* the client does on each attempt, run_audit does not raise, and what it
\* returns is a mapping that has all nine top-level keys.
RunAuditReturnsNineKeys ==
    (Called /\ KeyConfigured /\ arg_text.t = "str" /\ arg_text.v # <<>>) =>
        /\ pc # "raised"
        /\ raised = ""
        /\ Returned => (result.t = "dict" /\ TopLevelKeys \subseteq DOMAIN result.v)

\* C1 witness: a first attempt that raised, then an object that leaves keys
\* out and gives a string where a mapping is expected, and a report returned
RunAuditReturnsNineKeysWitness ==
    /\ Returned /\ KeyConfigured /\ Len(calls) = 2
    /\ calls[1].resp.err # ""
    /\ parsed.t = "dict"
    /\ "risk_level" \notin DOMAIN parsed.v
    /\ Given("executive_summary").t = "str"

\* C2: the clarity_score of every report returned is an integer in 0..100.
ClarityScoreInRange ==
    Returned =>
        /\ result.v["clarity_score"].t = "int"
        /\ result.v["clarity_score"].v \in 0..100

Canonical == {Low, Medium, High}

\* s is tok in another casing, with or without whitespace around it
IsVariantOf(s, tok) ==
    \E i \in 1..(Len(s) + 1) :
        /\ i + Len(tok) - 1 <= Len(s)
        /\ \A j \in 1..(i - 1) : IsSpace(s[j])
        /\ \A j \in (i + Len(tok))..Len(s) : IsSpace(s[j])
        /\ \A j \in 1..Len(tok) : ToLower(s[i + j - 1]) = ToLower(tok[j])

\* C3: the risk_level returned is one of Low, Medium, High: the token the
\* model's value is a casing or whitespace variant of, and High for every
\* other value of the model (null, missing, not a string, another word) and
\* for a report that does not come from the model.
RiskLevelCanonical ==
    Returned =>
        /\ result.v["risk_level"].t = "str"
        /\ result.v["risk_level"].v \in Canonical
        /\ IF parsed.t = "dict" /\ Given("risk_level").t = "str"
              /\ \E tok \in Canonical : IsVariantOf(Given("risk_level").v, tok)
           THEN IsVariantOf(Given("risk_level").v, result.v["risk_level"].v)
           ELSE result.v["risk_level"].v = High

\* C3 witness: the model said " MEDIUM\n" and the report says Medium
RiskLevelCanonicalWitness ==
    /\ Returned
    /\ parsed.t = "dict"
    /\ Given("risk_level") = PyStr(<<" ", "M", "E", "D", "I", "U", "M", "\n">>)
    /\ result.v["risk_level"] = PyStr(Medium)

\* C4: in every report returned, every entry of risk_flags that has a
\* severity has one of Low, Medium, High.
SeverityCanonical ==
    (Returned /\ result.v["risk_flags"].t = "list") =>
        \A i \in 1..Len(result.v["risk_flags"].v) :
            LET flag == result.v["risk_flags"].v[i]
            IN  (flag.t = "dict" /\ "severity" \in DOMAIN flag.v) =>
                    (flag.v["severity"].t = "str" /\ flag.v["severity"].v \in Canonical)

\* C5: for a requirement text that is None, empty or whitespace only,
\* run_audit calls the client zero times and returns the default report,
\* unmodified, whose risk_level is High.
BlankInputShortCircuits ==
    (Called /\ BlankArg) =>
        /\ Returned
        /\ calls = <<>>
        /\ result = PyDict(_default_report)
        /\ result.v["risk_level"] = PyStr(High)

\* C5 witness: whitespace-only text, no key in the environment, a report
BlankInputShortCircuitsWitness ==
    /\ Returned
    /\ arg_text = PyStr(<<" ", "\n">>)
    /\ ~KeyConfigured
    /\ calls = <<>>

\* the attempt that got response r failed: the call raised, or its text did
\* not parse
Failed(r) == ~AttemptOutcome(r).ok

\* the error of a failed attempt
ErrorOf(r) == AttemptOutcome(r).err

\* C6: one invocation calls the client at most two times, one call after the
\* other; each call but the first follows a failed attempt, and no call
\* follows an attempt whose response parsed.
AtMostTwoCallsInSequence ==
    /\ Len(calls) <= 2
    /\ \A i \in 1..(Len(calls) - 1) : Failed(calls[i].resp)
    /\ (parsed.t = "dict") =>
          (Returned /\ calls # <<>> /\ ~Failed(calls[Len(calls)].resp))

\* C6 witness: a second call, made after a failed first one, that parsed
AtMostTwoCallsInSequenceWitness ==
    /\ Len(calls) = 2
    /\ Failed(calls[1].resp)
    /\ parsed.t = "dict"

\* C7: when both attempts fail (text that does not parse, or an error raised
\* by the call) run_audit raises nothing and returns the default report with
\* one change: executive_summary.top_gaps[0] is the diagnostic that names
\* the error of the second attempt.
FallbackNamesLastError ==
    (Returned /\ Len(calls) = 2 /\ Failed(calls[1].resp) /\ Failed(calls[2].resp)) =>
        LET report == result.v
            summary == report["executive_summary"].v
            gaps == summary["top_gaps"].v
            default_summary == _default_report["executive_summary"].v
            default_gaps == default_summary["top_gaps"].v
        IN  /\ raised = ""
            /\ DOMAIN report = DOMAIN _default_report
            /\ \A k \in DOMAIN report \ {"executive_summary"} : report[k] = _default_report[k]
            /\ DOMAIN summary = DOMAIN default_summary
            /\ summary["top_quick_fixes"] = default_summary["top_quick_fixes"]
            /\ Len(gaps) = Len(default_gaps)
            /\ \A i \in 2..Len(gaps) : gaps[i] = default_gaps[i]
            /\ gaps[1] = PyStr(<<ParseFailed, ErrorOf(calls[2].resp)>>)

\* C7 witness: the first call raised a transport error, the text of the
\* second did not parse, and the fallback report is returned
FallbackNamesLastErrorWitness ==
    /\ Returned /\ Len(calls) = 2
    /\ calls[1].resp.err \in TransportErrors
    /\ calls[2].resp.err = "" /\ Failed(calls[2].resp)
    /\ ErrorOf(calls[1].resp) # ErrorOf(calls[2].resp)

IsPrefix(p, q) == Len(p) <= Len(q) /\ SubSeq(q, 1, Len(p)) = p

\* C8: the first attempt sends the original prompt; the prompt of every
\* later attempt is the prompt of the attempt before it with the reminder
\* appended, so the original prompt is a prefix of every prompt sent.
PromptStrengthenedByAppending ==
    /\ calls # <<>> => calls[1].prompt = build_master_prompt(requirement_text)
    /\ \A i \in 2..Len(calls) : calls[i].prompt = calls[i - 1].prompt \o <<"\n", "\n", Reminder>>
    /\ \A i \in 1..Len(calls) : IsPrefix(build_master_prompt(requirement_text), calls[i].prompt)
    /\ \A i \in 2..Len(calls) : calls[i].prompt[Len(calls[i].prompt)] = Reminder

\* C8 witness: a second attempt was made
PromptStrengthenedByAppendingWitness ==
    /\ Len(calls) = 2
    /\ Len(calls[2].prompt) > Len(calls[1].prompt)

\* C9: with the API key missing or blank, run_audit on a non-empty text
\* raises the configuration error before any call of the client: no attempt
\* is made and no report is returned.
MissingKeyRaisesBeforeAnyCall ==
    (Called /\ ~BlankArg /\ ~KeyConfigured) =>
        /\ pc = "raised"
        /\ raised = KeyNotFound
        /\ calls = <<>>
        /\ attempt = 0
        /\ result = PyNone

\* C9 witness: a blank key, a text, the error raised
MissingKeyRaisesBeforeAnyCallWitness ==
    /\ pc = "raised"
    /\ api_key = PyStr(<<" ">>)
    /\ requirement_text # <<>>

\* the list under report[k1][k2], or under report[k1] when k2 is ""
ListAt(report, k1, k2) ==
    IF k1 \notin DOMAIN report THEN <<>>
    ELSE IF k2 = "" THEN (IF report[k1].t = "list" THEN report[k1].v ELSE <<>>)
    ELSE IF report[k1].t = "dict" /\ k2 \in DOMAIN report[k1].v /\ report[k1].v[k2].t = "list"
    THEN report[k1].v[k2].v
    ELSE <<>>

Max(a, b) == IF a >= b THEN a ELSE b
Min(a, b) == IF a <= b THEN a ELSE b

IsYes(item) ==
    item.t = "dict" /\ "status" \in DOMAIN item.v /\ item.v["status"] = PyStr(StatusYes)
CountYes(l) == Cardinality({i \in 1..Len(l) : IsYes(l[i])})
HasMitigation(flag) ==
    /\ flag.t = "dict" /\ "mitigation" \in DOMAIN flag.v
    /\ flag.v["mitigation"].t = "str" /\ flag.v["mitigation"].v # <<>>
CountMitigated(l) == Cardinality({i \in 1..Len(l) : HasMitigation(l[i])})

\* the scoring rule of the specification, section 4.4
RuleScore(report) ==
    LET checklist == ListAt(report, "contract_completeness", "checklist")
        contract == IF checklist = <<>> THEN 0
                    ELSE (60 * CountYes(checklist) + Len(checklist)) \div (2 * Len(checklist))
        measurability == Max(0, 20 - 4 * Len(ListAt(report, "measurability_audit", "missing_metrics")))
        edge == Max(0, 20 - 2 * Len(ListAt(report, "edge_case_coverage", "missing_edge_cases")))
        ambiguity == Max(0, 15 - 3 * Len(ListAt(report, "ambiguity_flags", "")))
        awareness == Min(10, 2 * CountMitigated(ListAt(report, "risk_flags", "")))
        criteria == Len(ListAt(report, "acceptance_criteria", ""))
        testability == IF criteria >= 3 THEN 5 ELSE IF criteria >= 1 THEN 3 ELSE 0
    IN  Max(0, Min(100, contract + measurability + edge + ambiguity + awareness + testability))

\* C10 as claimed: for a response that parsed, the clarity_score returned is
\* the sum of the six components of the scoring rule computed from the
\* report's fields, and the score the model proposed is ignored.
ScoreIsRuleScore ==
    (Returned /\ parsed.t = "dict") =>
        result.v["clarity_score"] = PyInt(RuleScore(result.v))

\* C10 as amended: for a response that parsed and proposes an integer
\* clarity_score in 0..100, the clarity_score returned is the integer
\* proposed, whatever the scoring rule gives for the report's fields.
ScoreIsProposedScore ==
    (Returned /\ parsed.t = "dict" /\ Given("clarity_score").t = "int"
        /\ Given("clarity_score").v \in 0..100) =>
        result.v["clarity_score"] = Given("clarity_score")

\* C10 witness: ten of ten checklist items are Yes, which the rule scores 30
\* of 30, the model proposed 0 and the report says 0
ScoreIsProposedScoreWitness ==
    /\ Returned /\ parsed.t = "dict"
    /\ Given("clarity_score") = PyInt(0)
    /\ result.v["clarity_score"] = PyInt(0)
    /\ RuleScore(result.v) >= 30
    /\ CountYes(ListAt(result.v, "contract_completeness", "checklist")) = 10

IsHighFlag(flag) ==
    flag.t = "dict" /\ "severity" \in DOMAIN flag.v /\ flag.v["severity"] = PyStr(High)
CountHigh(l) == Cardinality({i \in 1..Len(l) : IsHighFlag(l[i])})

\* the derivation of the specification, section 4.4, from a report's
\* clarity_score and its risk flags of severity High
DerivedRisk(report) ==
    LET score == report["clarity_score"].v
        H == CountHigh(ListAt(report, "risk_flags", ""))
    IN  IF score >= 80 /\ H = 0 THEN Low
        ELSE IF score < 60 \/ H >= 2 THEN High
        ELSE Medium

\* C11 as claimed: the risk_level of every report returned is the one
\* derived from the report's clarity_score and its number of High risk flags.
RiskLevelIsDerived ==
    Returned => result.v["risk_level"] = PyStr(DerivedRisk(result.v))

\* C11 as amended: the risk_level of a report made from a response that
\* parsed and proposes one of Low, Medium, High is the level proposed,
\* whatever the derivation gives; a report that is not made from a response
\* (blank text, fallback) has score 20 and level High, as the derivation gives.
RiskLevelIsProposedLevel ==
    Returned =>
        IF parsed.t = "dict"
        THEN (Given("risk_level").t = "str" /\ Given("risk_level").v \in Canonical) =>
                result.v["risk_level"] = Given("risk_level")
        ELSE /\ result.v["clarity_score"] = PyInt(20)
             /\ result.v["risk_level"] = PyStr(High)
             /\ DerivedRisk(result.v) = High

\* C11 witness: the model proposed score 0 and level Low; the report says
\* Low where the derivation gives High
RiskLevelIsProposedLevelWitness ==
    /\ Returned /\ parsed.t = "dict"
    /\ Given("clarity_score") = PyInt(0)
    /\ Given("risk_level") = PyStr(Low)
    /\ result.v["risk_level"] = PyStr(Low)
    /\ DerivedRisk(result.v) = High

\* ------------------------------------------------------------------------
\* The helpers called on their own
\* ------------------------------------------------------------------------
\* nothing of run_audit or of the app has run
Idle ==
    /\ pc = "idle"
    /\ api_key = PyNone
    /\ arg_text = PyNone
    /\ requirement_text = <<>>
    /\ prompt = <<>>
    /\ attempt = 0
    /\ last_error = ""
    /\ parsed = PyNone
    /\ result = PyNone
    /\ raised = ""
    /\ calls = <<>>
    /\ template = DefaultReportLiteral
    /\ session = SessionInit

\* the longest response text given to _extract_json_object
MaxTextLen == 5

TextChars == {"{", "}", " ", "x"}
RawTexts == UNION {[1..n -> TextChars] : n \in 0..MaxTextLen}

InitExtract ==
    /\ Idle
    /\ fn_in \in {PyStr(t) : t \in RawTexts}
    /\ fn_out = PyNone

\* _extract_json_object(fn_in)
Extract ==
    /\ fn_out = PyNone
    /\ fn_out' = [t |-> "extracted", v |-> _extract_json_object(fn_in.v)]
    /\ UNCHANGED <<auditVars, template, session, fn_in>>

NextExtract == Extract

SpecExtract == InitExtract /\ [][NextExtract]_vars

DeepRest ==
    [executive_summary |-> PyDict(
        [top_gaps |-> PyList(<<Text("No owner named")>>),
         top_quick_fixes |-> PyNone,
         reviewer |-> PyDict([name |-> Text("qa"), team |-> PyNone])]),
     contract_completeness |-> PyDict(EmptyDict),
     edge_case_coverage |-> PyList(<<>>),
     ambiguity_flags |-> PyNone,
     acceptance_criteria |-> PyDict([given |-> Text("a request")]),
     meta |-> PyDict([version |-> PyInt(2), source |-> PyNone])]

\* scores that int() takes or refuses, besides those of ScoreInputs
OddScores ==
    {PyDict(EmptyDict), PyBool(TRUE), PyInf, PyFloat(0 - 857), PyStr(<<"-", "7">>),
     PyStr(<<"8", ".", "5">>), PyStr(<<>>)}

\* the objects given to _ensure_required_shape
ShapeInputs ==
    Bodies
    \cup {With(DeepRest, "clarity_score", x) : x \in ScoreInputs}
    \cup {With(EmptyDict, "clarity_score", x) : x \in OddScores}
    \cup {DefaultReportLiteral}

InitShape ==
    /\ Idle
    /\ fn_in \in {PyDict(b) : b \in ShapeInputs}
    /\ fn_out = PyNone

\* _ensure_required_shape(fn_in)
Shape ==
    /\ fn_out = PyNone
    /\ fn_out' = [t |-> "shaped", v |-> _ensure_required_shape(fn_in.v)]
    /\ UNCHANGED <<auditVars, template, session, fn_in>>

NextShape == Shape

SpecShape == InitShape /\ [][NextShape]_vars

Shaped == fn_out.t = "shaped"

\* one level of the merge: out is b over a, but for the keys in except
LevelRule(a, b, out, except) ==
    /\ DOMAIN out = (DOMAIN a) \cup (DOMAIN b)
    /\ \A k \in (DOMAIN out) \ except :
          IF k \notin DOMAIN a THEN out[k] = b[k]
          ELSE IF k \notin DOMAIN b THEN out[k] = a[k]
          ELSE IF b[k].t = "null" THEN out[k] = a[k]
          ELSE IF a[k].t = "dict" /\ b[k].t = "dict" THEN out[k].t = "dict"
          ELSE out[k] = b[k]

\* C13: but for clarity_score and risk_level, the report is the parsed
\* object merged over the default report: a key only the parsed object has is
\* passed through as it is, at the top and inside a section; a null keeps the
\* default; two mappings are merged the same way; any other parsed value
\* replaces the default one.
MergeRule ==
    Shaped =>
        LET a == DefaultReportLiteral
            b == fn_in.v
            out == fn_out.v
        IN  /\ LevelRule(a, b, out, {"clarity_score", "risk_level"})
            /\ \A k \in (DOMAIN a) \cap (DOMAIN b) :
                  (a[k].t = "dict" /\ b[k].t = "dict") =>
                      LevelRule(a[k].v, b[k].v, out[k].v, {})

\* C13 witness: inside executive_summary the model gave a list, a null and a
\* key of its own: the list replaced the default, the default quick fixes
\* stayed, the new key came through with the null inside it
MergeRuleWitness ==
    /\ Shaped
    /\ "executive_summary" \in DOMAIN fn_in.v
    /\ fn_in.v["executive_summary"] = DeepRest["executive_summary"]
    /\ LET summary == fn_out.v["executive_summary"].v
       IN  /\ summary["top_gaps"] = PyList(<<Text("No owner named")>>)
           /\ summary["top_quick_fixes"]
                = DefaultReportLiteral["executive_summary"].v["top_quick_fixes"]
           /\ summary["reviewer"] = PyDict([name |-> Text("qa"), team |-> PyNone])
    /\ fn_out.v["meta"] = DeepRest["meta"]

MappingFields ==
    {"executive_summary", "contract_completeness", "measurability_audit", "edge_case_coverage"}
SequenceFields == {"ambiguity_flags", "risk_flags", "acceptance_criteria"}

\* C14: every report made by shape normalisation has its four sections as
\* mappings and its three lists as sequences, whatever the parsed object
\* gave in their place.
FieldsHaveSchemaTypes ==
    Shaped =>
        /\ \A k \in MappingFields : k \in DOMAIN fn_out.v /\ fn_out.v[k].t = "dict"
        /\ \A k \in SequenceFields : k \in DOMAIN fn_out.v /\ fn_out.v[k].t = "list"

\* the sequence-valued fields: <<section, key>>, or <<key, "">> at the top
SequencePaths ==
    {<<"executive_summary", "top_gaps">>, <<"executive_summary", "top_quick_fixes">>,
     <<"contract_completeness", "checklist">>,
     <<"measurability_audit", "missing_metrics">>, <<"measurability_audit", "suggested_metrics">>,
     <<"edge_case_coverage", "missing_edge_cases">>, <<"edge_case_coverage", "clarifying_questions">>,
     <<"ambiguity_flags", "">>, <<"risk_flags", "">>, <<"acceptance_criteria", "">>}

\* the value at a path of a report, Absent when there is none
At(report, path) ==
    IF path[1] \notin DOMAIN report THEN Absent
    ELSE IF path[2] = "" THEN report[path[1]]
    ELSE IF report[path[1]].t = "dict" /\ path[2] \in DOMAIN report[path[1]].v
    THEN report[path[1]].v[path[2]]
    ELSE Absent

Missing(x) == x.t \in {"absent", "null"}

\* C15 as claimed: every sequence-valued field of the report is present and
\* not null, and one that the model output omits or gives as null is the
\* empty sequence.
SequenceFieldsDefaultToEmpty ==
    Shaped =>
        \A path \in SequencePaths :
            /\ ~Missing(At(fn_out.v, path))
            /\ Missing(At(fn_in.v, path)) => At(fn_out.v, path) = PyList(<<>>)

\* the model output leaves the field out or gives null for it: at the top,
\* or in a section that it leaves out, gives as null or gives as a mapping
OmittedOrNull(object, path) ==
    IF path[2] = "" THEN Missing(At(object, path))
    ELSE \/ Missing(At(object, <<path[1], "">>))
         \/ At(object, <<path[1], "">>).t = "dict" /\ Missing(At(object, path))

\* C15 as amended: the three top-level sequence fields are present and not
\* null, and a sequence-valued field that the model output omits or gives as
\* null is the sequence the default report has for it, which is not empty.
SequenceFieldsDefaultToDefault ==
    Shaped =>
        /\ \A k \in SequenceFields : ~Missing(At(fn_out.v, <<k, "">>))
        /\ \A path \in SequencePaths :
              OmittedOrNull(fn_in.v, path) =>
                  /\ At(fn_out.v, path) = At(DefaultReportLiteral, path)
                  /\ At(fn_out.v, path).t = "list"
                  /\ At(fn_out.v, path).v # <<>>

\* C15 witness: the model gave null for the checklist and for
\* measurability_audit and no risk_flags; the report has the nine default
\* checklist items, the four default missing metrics, the two default flags
SequenceFieldsDefaultToDefaultWitness ==
    /\ Shaped
    /\ At(fn_in.v, <<"contract_completeness", "checklist">>).t = "null"
    /\ At(fn_in.v, <<"measurability_audit", "">>).t = "null"
    /\ At(fn_in.v, <<"risk_flags", "">>).t = "absent"
    /\ Len(At(fn_out.v, <<"contract_completeness", "checklist">>).v) = 9
    /\ Len(At(fn_out.v, <<"measurability_audit", "missing_metrics">>).v) = 4
    /\ Len(At(fn_out.v, <<"risk_flags", "">>).v) = 2

\* C16: clarity_score is an integer after normalisation: the integer the
\* model's value converts to, and the default 20 when the conversion fails
\* or the value is null or absent.
ScoreCoercionRule ==
    Shaped =>
        LET given == At(fn_in.v, <<"clarity_score", "">>)
            score == fn_out.v["clarity_score"]
        IN  /\ score.t = "int"
            /\ given.t = "int" => score = given
            /\ given.t \in {"absent", "null", "list", "dict", "inf"} => score = PyInt(20)
            /\ given = PyStr(<<" ", "8", "5">>) => score = PyInt(85)
            /\ given = PyStr(<<"-", "7">>) => score = PyInt(0 - 7)
            /\ given = PyFloat(857) => score = PyInt(85)
            /\ given = PyFloat(0 - 857) => score = PyInt(0 - 85)
            /\ given = PyBool(TRUE) => score = PyInt(1)
            /\ (given.t = "str" /\ \E i \in 1..Len(given.v) : ~IsDigit(given.v[i]) /\ ~IsSpace(given.v[i])
                    /\ given.v[i] \notin {"-", "+"}) => score = PyInt(20)
            /\ given = PyStr(<<>>) => score = PyInt(20)

\* C16 witness: the model's score is the word "high"; the report has 20
ScoreCoercionRuleWitness ==
    /\ Shaped
    /\ At(fn_in.v, <<"clarity_score", "">>) = PyStr(<<"h", "i", "g", "h">>)
    /\ fn_out.v["clarity_score"] = PyInt(20)

\* C17: shape normalisation of the default report gives the default report.
DefaultIsFixedPoint ==
    (Shaped /\ fn_in = PyDict(DefaultReportLiteral)) => fn_out.v = DefaultReportLiteral

\* C17 witness: the default report has been normalised
DefaultIsFixedPointWitness ==
    /\ Shaped
    /\ fn_in.v = DefaultReportLiteral
    /\ DOMAIN fn_out.v = TopLevelKeys

\* ------------------------------------------------------------------------
\* run_audit called again and again, the caller writing into what it got
\* ------------------------------------------------------------------------
\* template is the default-report object that was last written in place, as
\* the writes left it: what a report object kept between calls would hold

\* the answers of the model: two that fail, three that parse
TemplateResponses ==
    {Response("timed out", PyNone, <<>>, EmptyDict),
     Response("", PyStr(<<"x", "x">>), <<"x">>, EmptyDict)}
    \cup {Response("", PyStr(BareText), <<"x">>, m) : m \in {EmptyDict, GoodRest, DeepRest}}

CallerMark == "edited by the caller"

GapsPath == <<"executive_summary", "top_gaps">>

\* report["executive_summary"]["top_gaps"][0] = text
WriteGap(report, text) ==
    LET summary == report["executive_summary"].v
        gaps == summary["top_gaps"].v
    IN  Put(report, "executive_summary",
            PyDict(Put(summary, "top_gaps", PyList([gaps EXCEPT ![1] = Text(text)]))))

\* the object _default_report gave this invocation: the report itself when
\* nothing was parsed, the base of the merge otherwise
BaseOf == IF parsed.t = "null" THEN result.v ELSE _default_report

\* the list the caller writes into is the base's: nothing was parsed, or the
\* merge took the default's list
GapsAreTheBases ==
    \/ parsed.t = "null"
    \/ Missing(At(parsed.v, <<"executive_summary", "">>))
    \/ At(parsed.v, <<"executive_summary", "">>).t = "dict" /\ Missing(At(parsed.v, GapsPath))

\* the caller writes into the report it got, then lets it go
EditAndFinish ==
    /\ pc = "returned"
    /\ At(result.v, GapsPath).t = "list"
    /\ At(result.v, GapsPath).v # <<>>
    /\ template' = IF GapsAreTheBases THEN WriteGap(BaseOf, CallerMark) ELSE template
    /\ Finish

NextTemplate ==
    \/ \E k \in ApiKeys : SetEnv(k) /\ UNCHANGED <<template, fnVars, session>>
    \/ \E t \in RequirementTexts : RunAudit(t) /\ UNCHANGED <<template, fnVars, session>>
    \/ \E r \in TemplateResponses : Attempt(r) /\ UNCHANGED <<template, fnVars, session>>
    \/ ReturnFallback /\ template' = Fallback(last_error) /\ UNCHANGED <<fnVars, session>>
    \/ EditAndFinish /\ UNCHANGED <<fnVars, session>>
    \/ Finish /\ UNCHANGED <<template, fnVars, session>>

SpecTemplate == Init /\ [][NextTemplate]_vars

\* two reports that differ in the first of their top gaps at most
SameButFirstGap(r1, r2) == WriteGap(r1, "") = WriteGap(r2, "")

\* C18: whatever the invocations before it wrote, _default_report gives the
\* canonical default: a blank-input invocation returns exactly it, a fallback
\* differs from it by its own diagnostic only, and what a merged report takes
\* from the default is the canonical value.
DefaultReportNeverChanged ==
    /\ _default_report = DefaultReportLiteral
    /\ Returned =>
          IF BlankArg THEN result = PyDict(DefaultReportLiteral)
          ELSE IF parsed.t = "null"
          THEN /\ At(result.v, GapsPath).v[1] = PyStr(<<ParseFailed, last_error>>)
               /\ SameButFirstGap(result.v, DefaultReportLiteral)
          ELSE \A path \in SequencePaths :
                  OmittedOrNull(parsed.v, path) =>
                      At(result.v, path) = At(DefaultReportLiteral, path)

\* C18 witness: a fallback or the caller wrote into an earlier report, and
\* this blank-input invocation returned the canonical default
DefaultReportNeverChangedWitness ==
    /\ Returned
    /\ BlankArg
    /\ template # DefaultReportLiteral
    /\ At(template, GapsPath).v[1] = Text(CallerMark)
    /\ result = PyDict(DefaultReportLiteral)

\* three quotes in a row begin at position i of p
TripleAt(p, i) == i + 2 <= Len(p) /\ p[i] = Quote /\ p[i + 1] = Quote /\ p[i + 2] = Quote

Triples(p) == {i \in 1..Len(p) : TripleAt(p, i)}

\* where the block opens and where it closes
Opening(p) == CHOOSE i \in Triples(p) : \A j \in Triples(p) : i <= j
Closing(p) == CHOOSE i \in Triples(p) : \A j \in Triples(p) : j <= i

\* C19: the prompt built for a requirement text holds the text as it is
\* between the opening and the closing triple quote, and no triple quote
\* occurs between the two, so the block is not ended early.
PromptBlockNotEndedEarly ==
    (pc = "loop" /\ attempt = 0) =>
        /\ prompt = build_master_prompt(requirement_text)
        /\ Triples(prompt) # {}
        /\ SubSeq(prompt, Opening(prompt) + 3, Closing(prompt) - 1) = requirement_text
        /\ \A j \in (Opening(prompt) + 3)..(Closing(prompt) - 3) : ~TripleAt(prompt, j)

\* ------------------------------------------------------------------------
\* app.py: the session over button presses and script runs
\* ------------------------------------------------------------------------
MaxAudits == 3

SAMPLE_REQUIREMENT == <<"F", "e", "a", "t", "u", "r", "e">>

\* what the user can type into the text area
AppTexts == {<<>>, <<" ">>, <<"r">>}

\* the Run Audit handler without report = None
RunPressedKeepingReport(s) == [s EXCEPT !.is_running = TRUE]

\* lines 644-645 of the Run Audit handler
RunPressed(s) == [s EXCEPT !.is_running = TRUE, !.report = PyNone]

\* the reports run_audit(text) can return with the key k
RunAuditResults(text, k) ==
    IF StripText(PyStr(text)) = <<>> THEN {PyDict(_default_report)}
    ELSE IF KeyMissing(k) THEN {}
    ELSE {AttemptOutcome(r).shaped : r \in {x \in TemplateResponses : AttemptOutcome(x).ok}}
         \cup {PyDict(Fallback(AttemptOutcome(r).err)) :
                    r \in {x \in TemplateResponses : ~AttemptOutcome(x).ok}}

\* run_audit(text) raises with the key k
RunAuditRaises(text, k) == StripText(PyStr(text)) # <<>> /\ KeyMissing(k)

PleasePaste == "Please paste a requirement document before running the audit."
AuditFailed == "Audit failed: "

\* st.rerun() at line 646 has ended the pass that set is_running: the pass
\* that follows is the rerun and no widget began it
RerunPending == session.is_running

\* the except branch without the finally
NoteFailureOnly(s, e) == [s EXCEPT !.message = <<AuditFailed, e>>]

\* lines 653-656: the error is shown and the flag reset
NoteFailure(s, e) == [s EXCEPT !.message = <<AuditFailed, e>>, !.is_running = FALSE]

\* the text area, key="req_text"
EditText(t) ==
    /\ ~RerunPending
    /\ session' = [session EXCEPT !.req_text = t, !.event = "edit", !.message = <<>>]
    /\ UNCHANGED <<auditVars, template, fnVars>>

\* Use Sample, lines 607-611
UseSample ==
    /\ ~RerunPending
    /\ session' = [session EXCEPT !.req_text = SAMPLE_REQUIREMENT, !.report = PyNone,
                                  !.is_running = FALSE, !.report_of = 0,
                                  !.event = "sample", !.message = <<>>]
    /\ UNCHANGED <<auditVars, template, fnVars>>

\* Clear Report, lines 622-626
ClearReport ==
    /\ ~RerunPending
    /\ session' = [session EXCEPT !.report = PyNone, !.req_text = <<>>,
                                  !.is_running = FALSE, !.report_of = 0,
                                  !.event = "clear", !.message = <<>>]
    /\ UNCHANGED <<auditVars, template, fnVars>>

\* Run Audit, lines 640-647: an error message for blank text, else an audit
\* is started
PressRun ==
    /\ ~RerunPending
    /\ session.started < MaxAudits
    /\ IF Strip(session.req_text) = <<>>
       THEN session' = [session EXCEPT !.event = "run", !.message = <<PleasePaste>>]
       ELSE LET s == RunPressed(session)
            IN  session' = [s EXCEPT !.started = session.started + 1,
                                     !.report_of = IF s.report = PyNone THEN 0
                                                   ELSE session.report_of,
                                     !.event = "run", !.message = <<>>]
    /\ UNCHANGED <<auditVars, template, fnVars>>

\* lines 650-656: run_audit returns
AuditReturns ==
    /\ session.is_running
    /\ session.invoked < MaxAudits
    /\ \E report \in RunAuditResults(session.req_text, api_key) :
          session' = [session EXCEPT !.report = report, !.report_of = session.started,
                                     !.is_running = FALSE,
                                     !.invoked = session.invoked + 1,
                                     !.event = "rerun", !.message = <<>>]
    /\ UNCHANGED <<auditVars, template, fnVars>>

\* lines 650-656: run_audit raises; the error is shown
AuditRaises ==
    /\ session.is_running
    /\ session.invoked < MaxAudits
    /\ RunAuditRaises(session.req_text, api_key)
    /\ session' = [NoteFailure(session, KeyNotFound) EXCEPT
                        !.invoked = session.invoked + 1, !.event = "rerun"]
    /\ UNCHANGED <<auditVars, template, fnVars>>

NextApp ==
    \/ \E k \in ApiKeys : SetEnv(k) /\ UNCHANGED <<template, fnVars, session>>
    \/ \E t \in AppTexts : EditText(t)
    \/ UseSample
    \/ ClearReport
    \/ PressRun
    \/ AuditReturns
    \/ AuditRaises

SpecApp == Init /\ [][NextApp]_vars

\* C20: a report in the session is the one returned by the audit started
\* last: the report is None from the start of an audit until its result is
\* stored, and after Clear Report and Use Sample.
ReportIsOfLatestAudit ==
    /\ session.report # PyNone => session.report_of = session.started
    /\ session.is_running => session.report = PyNone
    /\ session.report_of = 0 <=> session.report = PyNone

\* C20 witness: the report of the second audit is in the session, the first
\* audit's having been there before it
ReportIsOfLatestAuditWitness ==
    /\ session.report # PyNone
    /\ session.started = 2
    /\ session.report_of = 2
    /\ ~session.is_running

\* C21: is_running never stays set. A script pass that starts with
\* is_running true calls run_audit exactly once and ends with is_running
\* false, whether run_audit returned or raised; when it raised, the report
\* stays None and the error message is shown. No other pass calls run_audit,
\* and Run Audit pressed on blank text shows its message and leaves
\* is_running false and the report as it was; so run_audit has been called
\* once for every audit started, but for the one whose pass is about to run.
FlagNeverStaysSet ==
    /\ [][session' # session =>
            /\ session.is_running =>
                  /\ session'.invoked = session.invoked + 1
                  /\ ~session'.is_running
                  /\ IF RunAuditRaises(session.req_text, api_key)
                     THEN /\ session'.report = PyNone
                          /\ session'.message = <<AuditFailed, KeyNotFound>>
                     ELSE /\ session'.report \in RunAuditResults(session.req_text, api_key)
                          /\ session'.message = <<>>
            /\ ~session.is_running => session'.invoked = session.invoked
            /\ (session'.event = "run" /\ AllSpace(session.req_text)) =>
                  /\ ~session'.is_running
                  /\ session'.message = <<PleasePaste>>
                  /\ session'.report = session.report
                  /\ session'.started = session.started]_vars
    /\ [](session.invoked = session.started - (IF session.is_running THEN 1 ELSE 0))

\* C21 witness: the second audit raised: the flag is reset, there is no
\* report and the error is shown
FlagNeverStaysSetWitness ==
    /\ session.event = "rerun"
    /\ session.invoked = 2
    /\ session.message = <<AuditFailed, KeyNotFound>>
    /\ session.report = PyNone
    /\ ~session.is_running

====
